---- MODULE Spec2Model ----
(***************************************************************************)
(* Model of data_validation: the pydantic models of pydantic_example.py    *)
(* (Record and its nested models, pydantic_check_data) and the pandas /    *)
(* pandera pipeline of get_data.py (get_pandas_df_from_file,               *)
(* write_validation_schema, validate_pandas_df).                           *)
(*                                                                         *)
(* JSON values are tagged records [t, v]; a string is the sequence of its  *)
(* characters, a float is held in tenths (901 is 90.1), an object is a     *)
(* function from its keys to values.                                       *)
(***************************************************************************)
EXTENDS Integers, Sequences, FiniteSets, TLC

\* ------------------------------------------------------------------ values

VStr(s) == [t |-> "str", v |-> s]
VInt(n) == [t |-> "int", v |-> n]
VFloat(n) == [t |-> "float", v |-> n]
VNull == [t |-> "null", v |-> 0]
VObj(f) == [t |-> "obj", v |-> f]

Lower ==
  {"a","b","c","d","e","f","g","h","i","j","k","l","m",
   "n","o","p","q","r","s","t","u","v","w","x","y","z"}
Upper ==
  {"A","B","C","D","E","F","G","H","I","J","K","L","M",
   "N","O","P","Q","R","S","T","U","V","W","X","Y","Z"}
Digit == {"0","1","2","3","4","5","6","7","8","9"}
AlNum == Lower \cup Upper \cup Digit
WordChar == AlNum \cup {"_"}
Space == {" ", "\t", "\n", "\r"}

\* ------------------------------------------------------------------ regex
\* A pattern is a tree: a character class, a sequence, a bounded repetition,
\* or one of the zero-width assertions ^ ("bol"), $ ("eol"), \b ("wb").

Cls(S) == [k |-> "cls", s |-> S]
Lit(c) == Cls({c})
Cat(rs) == [k |-> "cat", rs |-> rs]
Rep(r, lo, hi) == [k |-> "rep", r |-> r, lo |-> lo, hi |-> hi]
Opt(r) == Rep(r, 0, 1)
Bol == [k |-> "bol"]
Eol == [k |-> "eol"]
WordB == [k |-> "wb"]
\* the largest repetition count of * and +; no modelled string is longer
Unbounded == 256

IsWordAt(s, i) == i >= 1 /\ i <= Len(s) /\ s[i] \in WordChar

RECURSIVE Ends(_, _, _)
RECURSIVE CatEnds(_, _, _, _)
RECURSIVE RepEnds(_, _, _, _)

\* the positions (characters consumed so far) at which a match of r that
\* starts at one of the positions P of s can end
Ends(r, s, P) ==
  CASE r.k = "cls" -> {p + 1 : p \in {q \in P : q < Len(s) /\ s[q + 1] \in r.s}}
    [] r.k = "cat" -> CatEnds(r.rs, 1, s, P)
    [] r.k = "rep" -> RepEnds(r, s, P, 0)
    [] r.k = "bol" -> {p \in P : p = 0}
    \* $ matches at the end and before a newline that ends the string
    [] r.k = "eol" -> {p \in P : p = Len(s) \/ (p = Len(s) - 1 /\ s[Len(s)] = "\n")}
    [] r.k = "wb" -> {p \in P : IsWordAt(s, p) # IsWordAt(s, p + 1)}

CatEnds(rs, i, s, P) ==
  IF i > Len(rs) \/ P = {} THEN P ELSE CatEnds(rs, i + 1, s, Ends(rs[i], s, P))

\* P: the positions reached after n repetitions
RepEnds(r, s, P, n) ==
  IF P = {} THEN {}
  ELSE (IF n >= r.lo THEN P ELSE {})
         \cup (IF n >= r.hi \/ n > Len(s) THEN {} ELSE RepEnds(r, s, Ends(r.r, s, P), n + 1))

\* re.match(pattern, v): the pattern must match at the start of v
ReMatchAnywhere(pattern, v) == Ends(pattern, v, 0 .. Len(v)) # {}
ReMatch(pattern, v) == Ends(pattern, v, {0}) # {}

phone_no_regex ==
  Cat(<<Bol, Opt(Lit("+")), Opt(Lit("(")), Rep(Cls(Digit), 2, 4), Opt(Lit(")")),
        Opt(Cls({"-", "."} \cup Space)), Rep(Cls(Digit), 3, 4),
        Opt(Cls({"-", "."} \cup Space)), Rep(Cls(Digit), 3, 6), Eol>>)
email_address_regex ==
  Cat(<<Bol, Rep(Cls(AlNum \cup {"_", ".", "+", "-"}), 1, Unbounded), Lit("@"),
        Rep(Cls(AlNum \cup {"-"}), 1, Unbounded), Lit("."),
        Rep(Cls(AlNum \cup {"-", "."}), 1, Unbounded), Eol>>)
timezone_offset_regex ==
  Cat(<<Bol, Opt(Cls({"+", "|", "-"})), Rep(Cls(Digit), 1, 2), Lit(":"),
        Rep(Cls(Digit), 2, 2), Eol>>)
url_regex ==
  Cat(<<Lit("h"), Lit("t"), Lit("t"), Lit("p"), Opt(Lit("s")), Lit(":"), Lit("/"), Lit("/"),
        Opt(Cat(<<Lit("w"), Lit("w"), Lit("w"), Lit(".")>>)),
        Rep(Cls(AlNum \cup {"-", "@", ":", "%", ".", "_", "+", "~", "#", "="}), 1, 256),
        Lit("."), Rep(Cls(AlNum \cup {"(", ")"}), 1, 6), WordB,
        Rep(Cls(AlNum \cup {"-", "(", ")", "@", ":", "%", "_", "+", ".", "~", "#", "?",
                            "&", "/", "="}), 0, Unbounded)>>)

\* ------------------------------------------------------------ conversions

DigitChar(d) ==
  CASE d = 0 -> "0" [] d = 1 -> "1" [] d = 2 -> "2" [] d = 3 -> "3" [] d = 4 -> "4"
    [] d = 5 -> "5" [] d = 6 -> "6" [] d = 7 -> "7" [] d = 8 -> "8" [] d = 9 -> "9"
DigitVal(c) ==
  CASE c = "0" -> 0 [] c = "1" -> 1 [] c = "2" -> 2 [] c = "3" -> 3 [] c = "4" -> 4
    [] c = "5" -> 5 [] c = "6" -> 6 [] c = "7" -> 7 [] c = "8" -> 8 [] c = "9" -> 9

RECURSIVE NatToStr(_)
NatToStr(n) == IF n < 10 THEN <<DigitChar(n)>> ELSE NatToStr(n \div 10) \o <<DigitChar(n % 10)>>
\* str(n) of a Python int
IntToStr(n) == IF n < 0 THEN <<"-">> \o NatToStr(-n) ELSE NatToStr(n)
\* str(x) of a Python float held in tenths: 905 is "90.5", 120 is "12.0"
FloatToStr(n) ==
  LET a == IF n < 0 THEN -n ELSE n
  IN (IF n < 0 THEN <<"-">> ELSE <<>>) \o NatToStr(a \div 10) \o <<".", DigitChar(a % 10)>>

AllDigits(s) == Len(s) >= 1 /\ \A i \in 1 .. Len(s) : s[i] \in Digit
RECURSIVE DigitsVal(_)
DigitsVal(s) == IF s = <<>> THEN 0 ELSE DigitsVal(SubSeq(s, 1, Len(s) - 1)) * 10 + DigitVal(s[Len(s)])

Unsigned(s) == IF s # <<>> /\ s[1] \in {"+", "-"} THEN Tail(s) ELSE s
Signed(s, n) == IF s # <<>> /\ s[1] = "-" THEN -n ELSE n

\* a decimal string read as an int: an optional sign and digits
IntOf(s, u) ==
  IF AllDigits(u) THEN [ok |-> TRUE, v |-> Signed(s, DigitsVal(u))] ELSE [ok |-> FALSE, v |-> 0]
ParseInt(s) == IntOf(s, Unsigned(s))

\* a decimal string read as a float, in tenths: an optional sign, digits and
\* at most one fractional digit (the modelled inputs hold no longer fraction)
FloatOf(s, u) ==
  IF AllDigits(u) THEN [ok |-> TRUE, v |-> Signed(s, 10 * DigitsVal(u))]
  ELSE IF Len(u) >= 3 /\ u[Len(u) - 1] = "." /\ AllDigits(SubSeq(u, 1, Len(u) - 2)) /\ u[Len(u)] \in Digit
    THEN [ok |-> TRUE, v |-> Signed(s, 10 * DigitsVal(SubSeq(u, 1, Len(u) - 2)) + DigitVal(u[Len(u)]))]
  ELSE [ok |-> FALSE, v |-> 0]
ParseFloat(s) == FloatOf(s, Unsigned(s))

DaysIn(y, m) ==
  IF m = 2 THEN (IF y % 4 = 0 /\ (y % 100 # 0 \/ y % 400 = 0) THEN 29 ELSE 28)
  ELSE IF m \in {4, 6, 9, 11} THEN 30 ELSE 31

\* an ISO-8601 string YYYY-MM-DDTHH:MM:SS, with Z (UTC, timezone-aware) or
\* with no offset (naive), read as a datetime: <<y, mo, d, h, mi, s>> and
\* its awareness. Other offsets are not among the modelled inputs.
DatetimeShape(s) ==
  /\ Len(s) \in {19, 20}
  /\ \A i \in {1, 2, 3, 4, 6, 7, 9, 10, 12, 13, 15, 16, 18, 19} : s[i] \in Digit
  /\ s[5] = "-" /\ s[8] = "-" /\ s[11] \in {"T", "t", " ", "_"}
  /\ s[14] = ":" /\ s[17] = ":"
  /\ (Len(s) = 20 => s[20] \in {"Z", "z"})
DatetimeFields(s) ==
  <<DigitsVal(SubSeq(s, 1, 4)), DigitsVal(SubSeq(s, 6, 7)), DigitsVal(SubSeq(s, 9, 10)),
    DigitsVal(SubSeq(s, 12, 13)), DigitsVal(SubSeq(s, 15, 16)), DigitsVal(SubSeq(s, 18, 19))>>
DatetimeOf(at, aware) ==
  IF /\ at[1] >= 1 /\ at[2] \in 1 .. 12 /\ at[3] \in 1 .. DaysIn(at[1], at[2])
     /\ at[4] <= 23 /\ at[5] <= 59 /\ at[6] <= 59
    THEN [ok |-> TRUE, v |-> [at |-> at, aware |-> aware]]
  ELSE [ok |-> FALSE, v |-> [at |-> <<>>, aware |-> FALSE]]
ParseDatetime(s) ==
  IF DatetimeShape(s) THEN DatetimeOf(DatetimeFields(s), Len(s) = 20)
  ELSE [ok |-> FALSE, v |-> [at |-> <<>>, aware |-> FALSE]]

\* datetime(y, m, d, tzinfo=UTC)
DatetimeUTC(y, m, d) == [at |-> <<y, m, d, 0, 0, 0>>, aware |-> TRUE]

RECURSIVE SeqLess(_, _)
SeqLess(a, b) ==
  IF a = <<>> \/ b = <<>> THEN FALSE
  ELSE IF a[1] # b[1] THEN a[1] < b[1] ELSE SeqLess(Tail(a), Tail(b))
\* a < b of two datetimes of the same awareness
DatetimeLess(a, b) == SeqLess(a.at, b.at)

\* ------------------------------------------------- pydantic: field types
\* The outcome of validating one value: ok with the validated value, or
\* the type of the error pydantic reports for it.

Good(v) == [ok |-> TRUE, v |-> v, err |-> ""]
Bad(e) == [ok |-> FALSE, v |-> VNull, err |-> e]
\* a parsed string as a value of type t, or the error err
Parsed(p, t, err) == IF p.ok THEN Good([t |-> t, v |-> p.v]) ELSE Bad(err)

\* a field annotated str; coerce is the owning model's coerce_numbers_to_str
ValidateStr(x, coerce) ==
  CASE x.t = "str" -> Good(x)
    [] x.t = "int" -> IF coerce THEN Good(VStr(IntToStr(x.v))) ELSE Bad("string_type")
    [] x.t = "float" -> IF coerce THEN Good(VStr(FloatToStr(x.v))) ELSE Bad("string_type")
    [] x.t \in {"null", "obj"} -> Bad("string_type")

\* a field annotated int (lax mode: an integral float and a decimal string pass)
ValidateInt(x) ==
  CASE x.t = "int" -> Good(x)
    [] x.t = "float" -> IF x.v % 10 = 0 THEN Good(VInt(x.v \div 10)) ELSE Bad("int_from_float")
    [] x.t = "str" -> Parsed(ParseInt(x.v), "int", "int_parsing")
    [] x.t \in {"null", "obj"} -> Bad("int_type")

\* a field annotated float
ValidateFloat(x) ==
  CASE x.t = "float" -> Good(x)
    [] x.t = "int" -> Good(VFloat(10 * x.v))
    [] x.t = "str" -> Parsed(ParseFloat(x.v), "float", "float_parsing")
    [] x.t \in {"null", "obj"} -> Bad("float_type")

\* a field annotated datetime (numbers, read as timestamps, are not among
\* the modelled inputs)
ValidateDatetime(x) ==
  CASE x.t = "str" -> Parsed(ParseDatetime(x.v), "datetime", "datetime_from_date_parsing")
    [] x.t \in {"null", "obj"} -> Bad("datetime_type")

\* a field annotated str | None
ValidateOptionalStr(x, coerce) == IF x.t = "null" THEN Good(x) ELSE ValidateStr(x, coerce)

ValidateType(type, x, coerce) ==
  CASE type = "str" -> ValidateStr(x, coerce)
    [] type = "int" -> ValidateInt(x)
    [] type = "float" -> ValidateFloat(x)
    [] type = "datetime" -> ValidateDatetime(x)
    [] type = "str | None" -> ValidateOptionalStr(x, coerce)

\* --------------------------------------------- pydantic: field validators
\* A field validator returns "ok", or names the exception it raises.

\* min_value < v < max_value
InRange(min_value, v, max_value) == min_value < v /\ v < max_value

Street_age_is_in_range(v) == IF InRange(0, v.v, 99999) THEN "ok" ELSE "ValueError"
latitude_is_in_range(v) == IF InRange(-900, v.v, 900) THEN "ok" ELSE "ValueError"
longitude_is_in_range(v) == IF InRange(-1800, v.v, 1800) THEN "ok" ELSE "ValueError"
Dob_age_is_in_range(v) == IF InRange(0, v.v, 100) THEN "ok" ELSE "ValueError"
Registered_age_is_in_range(v) == IF InRange(0, v.v, 100) THEN "ok" ELSE "ValueError"

\* min_value < v < max_value of datetimes: comparing a naive datetime with
\* the timezone-aware bounds raises TypeError
DatetimeInRange(min_value, v, max_value) ==
  IF ~v.aware THEN "TypeError"
  ELSE IF DatetimeLess(min_value, v) /\ DatetimeLess(v, max_value) THEN "ok" ELSE "ValueError"
Dob_date_is_in_range(v) == DatetimeInRange(DatetimeUTC(1940, 1, 1), v.v, DatetimeUTC(2030, 1, 1))
Registered_date_is_in_range(v) == DatetimeInRange(DatetimeUTC(1990, 1, 1), v.v, DatetimeUTC(2030, 1, 1))

Titles ==
  {<<"M","r">>, <<"M","r","s">>, <<"M","s">>, <<"M","i","s","s">>,
   <<"M","a","d","e","m","o","i","s","e","l","l","e">>, <<"M","a","d","a","m","e">>,
   <<"M","o","n","s","i","e","u","r">>}
Genders == {<<"m","a","l","e">>, <<"f","e","m","a","l","e">>}

offset_obeys_regex(v) == IF ReMatch(timezone_offset_regex, v.v) THEN "ok" ELSE "ValueError"
from_allow_list(v) == IF v.v \notin Titles THEN "ValueError" ELSE "ok"
\* re.search in place of re.match
all_obeys_regex_search(v) == IF ReMatchAnywhere(url_regex, v.v) THEN "ok" ELSE "ValueError"
all_obeys_regex(v) == IF ReMatch(url_regex, v.v) THEN "ok" ELSE "ValueError"
gender_from_allow_list(v) == IF v.v \notin Genders THEN "ValueError" ELSE "ok"
nat_is_correct_length(v) == IF Len(v.v) # 2 THEN "ValueError" ELSE "ok"
email_obeys_regex(v) == IF ReMatch(email_address_regex, v.v) THEN "ok" ELSE "ValueError"

RunValidator(name, v) ==
  CASE name = "" -> "ok"
    [] name = "Street.age_is_in_range" -> Street_age_is_in_range(v)
    [] name = "latitude_is_in_range" -> latitude_is_in_range(v)
    [] name = "longitude_is_in_range" -> longitude_is_in_range(v)
    [] name = "offset_obeys_regex" -> offset_obeys_regex(v)
    [] name = "from_allow_list" -> from_allow_list(v)
    [] name = "Dob.date_is_in_range" -> Dob_date_is_in_range(v)
    [] name = "Dob.age_is_in_range" -> Dob_age_is_in_range(v)
    [] name = "Registered.date_is_in_range" -> Registered_date_is_in_range(v)
    [] name = "Registered.age_is_in_range" -> Registered_age_is_in_range(v)
    [] name = "all_obeys_regex" -> all_obeys_regex(v)
    [] name = "gender_from_allow_list" -> gender_from_allow_list(v)
    [] name = "nat_is_correct_length" -> nat_is_correct_length(v)
    [] name = "email_obeys_regex" -> email_obeys_regex(v)

\* ------------------------------------------------------- pydantic: models
\* A model is the sequence of its fields in declared order: the field's
\* name, its annotation (a type, or "model" with the nested model's name)
\* and the name of its field validator ("" when it has none).

Fld(name, type, validator) == [name |-> name, type |-> type, model |-> "", validator |-> validator]
Sub(name, model) == [name |-> name, type |-> "model", model |-> model, validator |-> ""]

Street == <<Fld("number", "int", "Street.age_is_in_range"), Fld("name", "str", "")>>
Coordinates ==
  <<Fld("latitude", "float", "latitude_is_in_range"),
    Fld("longitude", "float", "longitude_is_in_range")>>
Timezone == <<Fld("offset", "str", "offset_obeys_regex"), Fld("description", "str", "")>>
Location ==
  <<Fld("city", "str", ""), Fld("state", "str", ""), Fld("country", "str", ""),
    Fld("postcode", "str", ""), Sub("street", "Street"),
    Sub("coordinates", "Coordinates"), Sub("timezone", "Timezone")>>
Name == <<Fld("title", "str", "from_allow_list"), Fld("first", "str", ""), Fld("last", "str", "")>>
Login ==
  <<Fld("uuid", "str", ""), Fld("username", "str", ""), Fld("password", "str", ""),
    Fld("salt", "str", ""), Fld("md5", "str", ""), Fld("sha1", "str", ""),
    Fld("sha256", "str", "")>>
Dob == <<Fld("date", "datetime", "Dob.date_is_in_range"), Fld("age", "int", "Dob.age_is_in_range")>>
Registered ==
  <<Fld("date", "datetime", "Registered.date_is_in_range"),
    Fld("age", "int", "Registered.age_is_in_range")>>
RecordId == <<Fld("name", "str", ""), Fld("value", "str | None", "")>>
Picture ==
  <<Fld("large", "str", "all_obeys_regex"), Fld("medium", "str", "all_obeys_regex"),
    Fld("thumbnail", "str", "all_obeys_regex")>>
\* the validator of phone and cell is inside a string literal: it is not
\* part of the class
Record ==
  <<Fld("gender", "str", "gender_from_allow_list"), Fld("email", "str", "email_obeys_regex"),
    Fld("phone", "str", ""), Fld("cell", "str", ""),
    Fld("nat", "str", "nat_is_correct_length"),
    Sub("name", "Name"), Sub("location", "Location"), Sub("login", "Login"),
    Sub("dob", "Dob"), Sub("registered", "Registered"), Sub("id", "RecordId"),
    Sub("picture", "Picture")>>

ModelFields(m) ==
  CASE m = "Street" -> Street [] m = "Coordinates" -> Coordinates
    [] m = "Timezone" -> Timezone [] m = "Location" -> Location [] m = "Name" -> Name
    [] m = "Login" -> Login [] m = "Dob" -> Dob [] m = "Registered" -> Registered
    [] m = "RecordId" -> RecordId [] m = "Picture" -> Picture [] m = "Record" -> Record

\* model_config = ConfigDict(coerce_numbers_to_str=True) is set on Location
\* only; a nested model validates under its own configuration
\* a model_config that the models nested in Location inherited
CoerceNumbersToStrNested(m) == m \in {"Location", "Street", "Coordinates", "Timezone"}
CoerceNumbersToStr(m) == m = "Location"

\* no model sets extra in its model_config: it is "ignore", the default
\* model_config = ConfigDict(extra="forbid")
ExtraForbid(m) == "forbid"
Extra(m) == "ignore"

RECURSIVE SetToSeq(_)
SetToSeq(S) == IF S = {} THEN <<>> ELSE LET x == CHOOSE y \in S : TRUE IN <<x>> \o SetToSeq(S \ {x})

\* --------------------------------------------------- pydantic: validation
\* Validating an object against a model gives the errors in the order the
\* fields are declared, each located by its path from the root, the
\* validated fields, and whether a validator raised something other than
\* ValueError: that is no validation error, it leaves Record(...) as it is.

RECURSIVE ValidateModel(_, _, _)
RECURSIVE ValidateFields(_, _, _, _)

Err(loc, type) == [loc |-> loc, type |-> type]
NoResult == [errs |-> <<>>, out |-> <<>>, raised |-> FALSE]
\* the result of the call for record n of the file
Called(n, r) ==
  IF r.raised THEN [record |-> n, errs |-> <<>>, out |-> <<>>, raised |-> TRUE]
  ELSE [record |-> n, errs |-> r.errs, out |-> r.out, raised |-> FALSE]

\* a nested model as the value of its field
Nested(r) == [errs |-> r.errs, out |-> VObj(r.out), raised |-> r.raised]

\* a value of the field's type under the field's validator, which returned r
AfterValidator(loc, v, r) ==
  [errs |-> IF r = "ValueError" THEN <<Err(loc, "value_error")>> ELSE <<>>,
   out |-> v,
   raised |-> r = "TypeError"]

\* the validator runs only on a value that has the field's type
AfterType(f, loc, t) ==
  IF ~t.ok THEN [errs |-> <<Err(loc, t.err)>>, out |-> VNull, raised |-> FALSE]
  ELSE AfterValidator(loc, t.v, RunValidator(f.validator, t.v))

ValidateField(m, f, data, loc) ==
  IF f.name \notin DOMAIN data THEN [errs |-> <<Err(loc, "missing")>>, out |-> VNull, raised |-> FALSE]
  ELSE IF f.type = "model" THEN
    IF data[f.name].t # "obj" THEN [errs |-> <<Err(loc, "model_type")>>, out |-> VNull, raised |-> FALSE]
    ELSE Nested(ValidateModel(f.model, data[f.name].v, loc))
  ELSE AfterType(f, loc, ValidateType(f.type, data[f.name], CoerceNumbersToStr(m)))

\* the keys of data that model m does not declare are errors only under
\* extra="forbid"
ExtraErrors(m, data, loc) ==
  IF Extra(m) # "forbid" THEN <<>>
  ELSE LET ks == SetToSeq(DOMAIN data \ {ModelFields(m)[j].name : j \in 1 .. Len(ModelFields(m))})
       IN [j \in 1 .. Len(ks) |-> Err(Append(loc, ks[j]), "extra_forbidden")]

\* the result of one field ahead of the results of the fields after it
Collected(name, head, rest) ==
  [errs |-> head.errs \o rest.errs,
   out |-> <<[name |-> name, v |-> head.out]>> \o rest.out,
   raised |-> head.raised \/ rest.raised]

\* the fields i.. of model m, in declared order
ValidateFields(m, i, data, loc) ==
  IF i > Len(ModelFields(m)) THEN [NoResult EXCEPT !.errs = ExtraErrors(m, data, loc)]
  ELSE Collected(ModelFields(m)[i].name,
                 ValidateField(m, ModelFields(m)[i], data, Append(loc, ModelFields(m)[i].name)),
                 ValidateFields(m, i + 1, data, loc))

ValidateModel(m, data, loc) == ValidateFields(m, 1, data, loc)

\* ------------------------------------------------------------------ inputs
\* One record in the shape of the randomuser.me data the repository reads:
\* every validator of both programs accepts it.

Url == <<"h","t","t","p",":","/","/","a",".","b","c","/","d">>
DobDate == <<"1","9","9","3","-","0","7","-","2","0","T","0","9",":","4","4",":","1","8","Z">>
RegisteredDate == <<"2","0","0","5","-","0","1","-","0","2","T","0","3",":","0","4",":","0","5","Z">>

BaseRecord ==
  [gender |-> VStr(<<"m","a","l","e">>), email |-> VStr(<<"a","@","b",".","c">>), phone |-> VStr(<<"0","1","2","-","3","4","5","-","6","7","8">>), cell |-> VStr(<<"(","0","1",")"," ","2","3","4"," ","5","6","7","8">>),
   nat |-> VStr(<<"U","S">>),
   name |-> VObj([title |-> VStr(<<"M","r">>), first |-> VStr(<<"A","l">>), last |-> VStr(<<"O","b">>)]),
   location |-> VObj(
     [city |-> VStr(<<"x">>), state |-> VStr(<<"x">>), country |-> VStr(<<"x">>), postcode |-> VStr(<<"A","B","1">>),
      street |-> VObj([number |-> VInt(12), name |-> VStr(<<"x">>)]),
      coordinates |-> VObj([latitude |-> VStr(<<"-","6","9",".","8">>), longitude |-> VStr(<<"1","2",".","5">>)]),
      timezone |-> VObj([offset |-> VStr(<<"+","1",":","0","0">>), description |-> VStr(<<"x">>)])]),
   login |-> VObj([uuid |-> VStr(<<"x">>), username |-> VStr(<<"x">>), password |-> VStr(<<"x">>), salt |-> VStr(<<"x">>),
                   md5 |-> VStr(<<"x">>), sha1 |-> VStr(<<"x">>), sha256 |-> VStr(<<"x">>)]),
   dob |-> VObj([date |-> VStr(DobDate), age |-> VInt(30)]),
   registered |-> VObj([date |-> VStr(RegisteredDate), age |-> VInt(10)]),
   id |-> VObj([name |-> VStr(<<"x">>), value |-> VStr(<<"x">>)]),
   picture |-> VObj([large |-> VStr(Url), medium |-> VStr(Url), thumbnail |-> VStr(Url)])]

\* An edit of a record: a value put at a path, or the key at a path removed.
Put(path, v) == [path |-> path, del |-> FALSE, v |-> v]
Del(path) == [path |-> path, del |-> TRUE, v |-> VNull]
NoEdit == [path |-> <<>>, del |-> FALSE, v |-> VNull]

\* values at, next to and beyond the bounds of the range validators
RangeEdits ==
  <<Put(<<"dob", "age">>, VInt(0)),
    Put(<<"dob", "age">>, VInt(1)),
    Put(<<"dob", "age">>, VInt(50)),
    Put(<<"dob", "age">>, VInt(99)),
    Put(<<"dob", "age">>, VInt(100)),
    Put(<<"dob", "age">>, VInt(150)),
    Put(<<"registered", "age">>, VInt(0)),
    Put(<<"registered", "age">>, VInt(100)),
    Put(<<"registered", "age">>, VInt(-1)),
    Put(<<"location", "street", "number">>, VInt(0)),
    Put(<<"location", "street", "number">>, VInt(1)),
    Put(<<"location", "street", "number">>, VInt(99999)),
    Put(<<"location", "street", "number">>, VInt(100000)),
    Put(<<"location", "coordinates", "latitude">>, VStr(<<"9","0",".","0">>)),
    Put(<<"location", "coordinates", "latitude">>, VStr(<<"-","9","0",".","0">>)),
    Put(<<"location", "coordinates", "latitude">>, VStr(<<"8","9",".","9">>)),
    Put(<<"location", "coordinates", "latitude">>, VStr(<<"9","0",".","1">>)),
    Put(<<"location", "coordinates", "longitude">>, VStr(<<"1","8","0",".","0">>)),
    Put(<<"location", "coordinates", "longitude">>, VStr(<<"-","1","8","0",".","0">>)),
    Put(<<"location", "coordinates", "longitude">>, VStr(<<"-","1","8","0",".","1">>)),
    Put(<<"dob", "date">>, VStr(<<"1","9","4","0","-","0","1","-","0","1","T","0","0",":","0","0",":","0","0","Z">>)),
    Put(<<"dob", "date">>, VStr(<<"1","9","4","0","-","0","1","-","0","1","T","0","0",":","0","0",":","0","1","Z">>)),
    Put(<<"dob", "date">>, VStr(<<"1","9","3","9","-","1","2","-","3","1","T","2","3",":","5","9",":","5","9","Z">>)),
    Put(<<"dob", "date">>, VStr(<<"2","0","3","0","-","0","1","-","0","1","T","0","0",":","0","0",":","0","0","Z">>)),
    Put(<<"registered", "date">>, VStr(<<"1","9","9","0","-","0","1","-","0","1","T","0","0",":","0","0",":","0","0","Z">>)),
    Put(<<"registered", "date">>, VStr(<<"1","9","8","9","-","0","6","-","0","1","T","0","0",":","0","0",":","0","0","Z">>))>>

\* values of another type than the field declares, and values that do not convert
TypeEdits ==
  <<Put(<<"location", "postcode">>, VInt(1234)),
    Put(<<"location", "postcode">>, VInt(90210)),
    Put(<<"location", "city">>, VInt(1234)),
    Put(<<"name", "first">>, VInt(1234)),
    Put(<<"login", "username">>, VInt(1234)),
    Put(<<"location", "street", "name">>, VInt(1234)),
    Put(<<"location", "timezone", "description">>, VInt(1234)),
    Put(<<"dob", "age">>, VStr(<<"a","b","c">>)),
    Put(<<"dob", "date">>, VStr(<<"a","b","c">>)),
    Put(<<"dob", "date">>, VStr(<<"1","9","9","3","-","0","7","-","2","0","T","0","9",":","4","4",":","1","8">>)),
    Put(<<"location", "coordinates", "latitude">>, VStr(<<"a","b","c">>)),
    Put(<<"name">>, VStr(<<"A","l">>)),
    Put(<<"location", "street">>, VInt(7))>>

\* absent and null fields
MissingEdits ==
  <<Del(<<"id", "value">>),
    Put(<<"id", "value">>, VNull),
    Del(<<"id", "name">>),
    Put(<<"id", "name">>, VNull),
    Del(<<"gender">>),
    Del(<<"dob", "age">>),
    Del(<<"name">>),
    Del(<<"location", "street">>),
    Del(<<"picture", "thumbnail">>)>>

\* values the allow lists, the length check and the patterns reject or accept
ConstraintEdits ==
  <<Put(<<"gender">>, VStr(<<"o","t","h","e","r">>)),
    Put(<<"gender">>, VStr(<<"f","e","m","a","l","e">>)),
    Put(<<"nat">>, VStr(<<"U","S","A">>)),
    Put(<<"name", "title">>, VStr(<<"D","r">>)),
    Put(<<"email">>, VStr(<<"n","o","t","-","a","n","-","e","m","a","i","l">>)),
    Put(<<"email">>, VStr(<<"a","@","b",".","c","\n">>)),
    Put(<<"email">>, VStr(<<" ","a","@","b",".","c">>)),
    Put(<<"phone">>, VStr(<<"b","a","d">>)),
    Put(<<"cell">>, VStr(<<"b","a","d">>)),
    Put(<<"location", "timezone", "offset">>, VStr(<<"+","1",":","0","0","x">>)),
    Put(<<"location", "timezone", "offset">>, VStr(<<"x","+","1",":","0","0">>)),
    Put(<<"picture", "large">>, VStr(<<"x", " ">> \o Url)),
    Put(<<"picture", "large">>, VStr(Url \o <<" ", "!">>)),
    Put(<<"picture", "medium">>, VStr(<<"f","t","p",":","/","/","a",".","b","c">>)),
    Put(<<"picture", "thumbnail">>, VStr(<<"(">> \o Url \o <<")">>))>>

\* fields that no model and no column declares
ExtraEdits ==
  <<Put(<<"extra">>, VInt(1)),
    Put(<<"name", "middle">>, VStr(<<"Q">>)),
    Put(<<"location", "street", "extra">>, VNull),
    Put(<<"location", "coordinates", "extra">>, VStr(<<"x">>))>>

AllEdits == <<NoEdit>> \o RangeEdits \o TypeEdits \o MissingEdits \o ConstraintEdits \o ExtraEdits

\* the edits a second field of the same record takes
SecondEdits ==
  <<NoEdit, Put(<<"gender">>, VStr(<<"o","t","h","e","r">>)), Put(<<"name", "title">>, VStr(<<"D","r">>)),
    Put(<<"location", "street", "number">>, VInt(0)), Put(<<"dob", "age">>, VInt(150)),
    Put(<<"picture", "medium">>, VStr(Url \o <<" ", "!">>)), Del(<<"login", "salt">>),
    Put(<<"registered", "date">>, VStr(<<"a","b","c">>)),
    Put(<<"name", "first">>, VInt(1234)),
    Put(<<"zzz">>, VObj([a |-> VInt(1)])), Put(<<"picture", "extra">>, VInt(2))>>

\* the object f with key k set to v
SetKey(f, k, v) == [x \in DOMAIN f \cup {k} |-> IF x = k THEN v ELSE f[x]]
DelKey(f, k) == [x \in DOMAIN f \ {k} |-> f[x]]

RECURSIVE ApplyAt(_, _, _)
\* an edit whose path runs through a key that holds no object changes nothing
ApplyAt(f, path, e) ==
  IF Len(path) = 1 THEN (IF e.del THEN DelKey(f, path[1]) ELSE SetKey(f, path[1], e.v))
  ELSE IF path[1] \in DOMAIN f /\ f[path[1]].t = "obj"
    THEN SetKey(f, path[1], VObj(ApplyAt(f[path[1]].v, Tail(path), e)))
  ELSE f
ApplyEdit(f, e) == IF e.path = <<>> THEN f ELSE ApplyAt(f, e.path, e)

\* the most records a file holds
MaxRecords == 2

\* a file of n lines: BaseRecord in every line but line k, which holds
\* BaseRecord with edit a and second edit b applied
File(n, k, a, b) ==
  [r \in 1 .. n |-> IF r = k THEN ApplyEdit(ApplyEdit(BaseRecord, AllEdits[a]), SecondEdits[b])
                    ELSE BaseRecord]

\* ------------------------------------------------- get_pandas_df_from_file
\* A dataframe is its set of column names and its rows; a row is a function
\* from the columns it has a value in to the value, and a cell it has no
\* value in is NaN. (No modelled input names two columns alike.)

VNaN == [t |-> "nan", v |-> 0]
IsNull(x) == x.t \in {"null", "nan"}
Cell(row, c) == IF c \in DOMAIN row THEN row[c] ELSE VNaN
EmptyDf == [cols |-> {}, rows |-> <<>>]

\* pd.read_json(filename, lines=True): one row per line, one column per
\* top-level key
ReadJson(f) == [cols |-> UNION {DOMAIN f[r] : r \in 1 .. Len(f)}, rows |-> f]

\* the list with a struct of location ahead of location
StructColsChildFirst ==
  <<"name", "location_street", "location", "login", "dob", "registered", "id", "picture",
    "location_coordinates", "location_timezone">>

StructCols ==
  <<"name", "location", "login", "dob", "registered", "id", "picture",
    "location_street", "location_coordinates", "location_timezone">>

\* add_prefix(f"{struct_col}_")
Prefixed(struct_col, key) == struct_col \o "_" \o key

\* the index of pd.Series(cell): the keys of a dict, nothing for None, and
\* the one position 0 for a scalar and for NaN
SeriesKeys(cell) ==
  CASE cell.t = "obj" -> DOMAIN cell.v
    [] cell.t = "null" -> {}
    [] OTHER -> {"0"}
SeriesAt(cell, key) == IF cell.t = "obj" THEN cell.v[key] ELSE cell

ExpandRow(row, struct_col) ==
  LET cell == Cell(row, struct_col)
      keys == {k \in SeriesKeys(cell) : SeriesAt(cell, k).t # "nan"}
      rest == DOMAIN row \ {struct_col}
  IN [c \in rest \cup {Prefixed(struct_col, k) : k \in keys} |->
        IF c \in rest THEN row[c]
        ELSE SeriesAt(cell, CHOOSE k \in keys : Prefixed(struct_col, k) = c)]

\* pd.concat([df.drop([struct_col], axis=1),
\*            df[struct_col].apply(pd.Series).add_prefix(f"{struct_col}_")], axis=1)
Expand(d, struct_col) ==
  [cols |-> (d.cols \ {struct_col})
              \cup UNION {{Prefixed(struct_col, k) : k \in SeriesKeys(Cell(d.rows[r], struct_col))} :
                            r \in 1 .. Len(d.rows)},
   rows |-> [r \in 1 .. Len(d.rows) |-> ExpandRow(d.rows[r], struct_col)]]

\* One cell under astype(float); a string that is no number raises
\* ValueError, a dict TypeError.
AsFloat(x) ==
  CASE x.t = "str" -> Parsed(ParseFloat(x.v), "float", "ValueError")
    [] x.t = "int" -> Good(VFloat(10 * x.v))
    [] x.t = "float" -> Good(x)
    [] x.t \in {"null", "nan"} -> Good(VNaN)
    [] x.t = "obj" -> Bad("TypeError")

\* One cell under astype(str): str(x), of NaN and of None too.
AsStr(x) ==
  CASE x.t = "str" -> Good(x)
    [] x.t = "int" -> Good(VStr(IntToStr(x.v)))
    [] x.t = "float" -> Good(VStr(FloatToStr(x.v)))
    [] x.t = "nan" -> Good(VStr(<<"n", "a", "n">>))
    [] x.t = "null" -> Good(VStr(<<"N", "o", "n", "e">>))

\* One cell under pd.to_datetime; a string that is no date raises.
AsDatetime(x) ==
  CASE x.t = "str" -> Parsed(ParseDatetime(x.v), "datetime", "ValueError")
    [] x.t \in {"null", "nan"} -> Good(VNaN)

\* the cast of one value to a dtype
Convert(to, x) ==
  CASE to = "float" -> AsFloat(x)
    [] to = "str" -> AsStr(x)
    [] to = "datetime" -> AsDatetime(x)

\* the column assigned, unless a cell raised
Assigned(d, col, conv) ==
  IF \E r \in 1 .. Len(d.rows) : ~conv[r].ok THEN [ok |-> FALSE, df |-> d]
  ELSE [ok |-> TRUE,
        df |-> [d EXCEPT !.rows =
                  [r \in 1 .. Len(d.rows) |->
                     IF conv[r].v.t = "nan" THEN DelKey(d.rows[r], col)
                     ELSE SetKey(d.rows[r], col, conv[r].v)]]]

\* df[col] = <df[col] converted cell by cell>; df[col] of a column the
\* dataframe does not have raises KeyError
MapCol(d, col, to) ==
  IF col \notin d.cols THEN [ok |-> FALSE, df |-> d]
  ELSE Assigned(d, col, [r \in 1 .. Len(d.rows) |-> Convert(to, Cell(d.rows[r], col))])

\* pd.to_datetime of a column: timezone-aware and naive strings do not mix
Unmixed(col, m) ==
  IF /\ m.ok
     /\ \E r \in 1 .. Len(m.df.rows) :
          Cell(m.df.rows[r], col).t = "datetime" /\ Cell(m.df.rows[r], col).v.aware
     /\ \E r \in 1 .. Len(m.df.rows) :
          Cell(m.df.rows[r], col).t = "datetime" /\ ~Cell(m.df.rows[r], col).v.aware
    THEN [m EXCEPT !.ok = FALSE]
  ELSE m
ToDatetime(d, col) == Unmixed(col, MapCol(d, col, "datetime"))

\* the five casts after the loop, in order
Casts ==
  <<[col |-> "location_coordinates_latitude", to |-> "float"],
    [col |-> "location_coordinates_longitude", to |-> "float"],
    [col |-> "location_postcode", to |-> "str"],
    [col |-> "dob_date", to |-> "datetime"],
    [col |-> "registered_date", to |-> "datetime"]>>

Cast(d, c) == IF c.to = "datetime" THEN ToDatetime(d, c.col) ELSE MapCol(d, c.col, c.to)

RECURSIVE CastsFrom(_, _)
\* the casts i.. after the casts that gave c; the first that raises ends them
CastsFrom(c, i) ==
  IF ~c.ok \/ i > Len(Casts) THEN c ELSE CastsFrom(Cast(c.df, Casts[i]), i + 1)

CastFields(d) == CastsFrom([ok |-> TRUE, df |-> d], 1)

\* ------------------------------------------------ write_validation_schema
\* A dtype is its kind and, of a datetime, its timezone ("" when naive).

Dtype(kind, tz) == [kind |-> kind, tz |-> tz]
\* the dtypes pandera gives the Python types str, int, float and datetime
PaStr == Dtype("str", "")
PaInt == Dtype("int64", "")
PaFloat == Dtype("float64", "")
PaDatetime == Dtype("datetime64[ns]", "")

Isin(allowed) == [kind |-> "isin", allowed |-> allowed, pattern |-> <<>>, min |-> VNull, max |-> VNull]
StrMatches(pattern) == [kind |-> "str_matches", allowed |-> {}, pattern |-> pattern, min |-> VNull, max |-> VNull]
StrLength(min, max) == [kind |-> "str_length", allowed |-> {}, pattern |-> <<>>, min |-> VInt(min), max |-> VInt(max)]
\* include_min and include_max are left at their default, True
InRangeCheck(min, max) == [kind |-> "in_range", allowed |-> {}, pattern |-> <<>>, min |-> min, max |-> max]
VDatetime(y, m, d) == [t |-> "datetime", v |-> DatetimeUTC(y, m, d)]

\* pa.Column(dtype, checks, nullable=nullable)
Column(name, dtype, checks, nullable) ==
  [name |-> name, dtype |-> dtype, checks |-> checks, nullable |-> nullable]

\* schema = pa.DataFrameSchema(columns={...})
ValidationSchema ==
  <<Column("gender", PaStr, <<Isin(Genders)>>, FALSE),
    Column("email", PaStr, <<StrMatches(email_address_regex)>>, FALSE),
    Column("phone", PaStr, <<StrMatches(phone_no_regex)>>, FALSE),
    Column("cell", PaStr, <<StrMatches(phone_no_regex)>>, FALSE),
    Column("nat", PaStr, <<StrLength(2, 2)>>, FALSE),
    Column("name_title", PaStr, <<Isin(Titles)>>, FALSE),
    Column("name_first", PaStr, <<>>, FALSE),
    Column("name_last", PaStr, <<>>, FALSE),
    Column("location_city", PaStr, <<>>, FALSE),
    Column("location_state", PaStr, <<>>, FALSE),
    Column("location_country", PaStr, <<>>, FALSE),
    Column("location_postcode", PaStr, <<>>, FALSE),
    Column("login_uuid", PaStr, <<>>, FALSE),
    Column("login_username", PaStr, <<>>, FALSE),
    Column("login_password", PaStr, <<>>, FALSE),
    Column("login_salt", PaStr, <<>>, FALSE),
    Column("login_md5", PaStr, <<>>, FALSE),
    Column("login_sha1", PaStr, <<>>, FALSE),
    Column("login_sha256", PaStr, <<>>, FALSE),
    Column("dob_date", PaDatetime, <<InRangeCheck(VDatetime(1940, 1, 1), VDatetime(2030, 1, 1))>>, FALSE),
    Column("dob_age", PaInt, <<InRangeCheck(VInt(0), VInt(100))>>, FALSE),
    Column("registered_date", PaDatetime, <<InRangeCheck(VDatetime(1990, 1, 1), VDatetime(2030, 1, 1))>>, FALSE),
    Column("registered_age", PaInt, <<InRangeCheck(VInt(0), VInt(100))>>, FALSE),
    Column("id_name", PaStr, <<>>, FALSE),
    Column("id_value", PaStr, <<>>, TRUE),
    Column("picture_large", PaStr, <<StrMatches(url_regex)>>, FALSE),
    Column("picture_medium", PaStr, <<StrMatches(url_regex)>>, FALSE),
    Column("picture_thumbnail", PaStr, <<StrMatches(url_regex)>>, FALSE),
    Column("location_street_number", PaInt, <<InRangeCheck(VInt(1), VInt(99999))>>, FALSE),
    Column("location_street_name", PaStr, <<>>, FALSE),
    Column("location_coordinates_latitude", PaFloat, <<InRangeCheck(VFloat(-900), VFloat(900))>>, FALSE),
    Column("location_coordinates_longitude", PaFloat, <<InRangeCheck(VFloat(-1800), VFloat(1800))>>, FALSE),
    Column("location_timezone_offset", PaStr, <<StrMatches(timezone_offset_regex)>>, FALSE),
    Column("location_timezone_description", PaStr, <<>>, FALSE)>>

\* str(dtype), as the yaml file holds it
DtypeStr(d) == IF d.tz = "" THEN d.kind ELSE "datetime64[ns, " \o d.tz \o "]"
ParseDtype(text) ==
  IF text = "datetime64[ns, UTC]" THEN Dtype("datetime64[ns]", "UTC") ELSE Dtype(text, "")
BoolStr(b) == IF b THEN "true" ELSE "false"

\* The yaml file, line by line: of each column its dtype, its nullable
\* flag and its checks with their parameters.
YamlLine(column, key, text, checks) == [column |-> column, key |-> key, text |-> text, checks |-> checks]

\* pandera.io.to_yaml(schema, f)
ToYaml(s) ==
  [n \in 1 .. 3 * Len(s) |->
     LET col == s[(n + 2) \div 3]
     IN CASE n % 3 = 1 -> YamlLine(col.name, "dtype", DtypeStr(col.dtype), <<>>)
          [] n % 3 = 2 -> YamlLine(col.name, "nullable", BoolStr(col.nullable), <<>>)
          [] n % 3 = 0 -> YamlLine(col.name, "checks", "", col.checks)]

\* x.replace("dtype: datetime64[ns]", "dtype: datetime64[ns, UTC]")
ReplaceDtype(x) ==
  IF x.key = "dtype" /\ x.text = "datetime64[ns]" THEN [x EXCEPT !.text = "datetime64[ns, UTC]"]
  ELSE x
\* lines = [x.replace(...) for x in lines]
ReplaceLines(lines) == [n \in 1 .. Len(lines) |-> ReplaceDtype(lines[n])]

\* ----------------------------------------------------- validate_pandas_df

\* pandera.io.from_yaml(schema_yaml_filename)
FromYaml(lines) ==
  [j \in 1 .. Len(lines) \div 3 |->
     Column(lines[3 * j - 2].column, ParseDtype(lines[3 * j - 2].text), lines[3 * j].checks,
            lines[3 * j - 1].text = "true")]

\* the dtype pandas holds a column in: None makes a column of numbers an
\* object column, NaN makes a column of ints a float column
ColumnDtype(d, c) ==
  LET R == 1 .. Len(d.rows)
      kinds == {Cell(d.rows[r], c).t : r \in R}
  IN CASE "null" \in kinds \/ "str" \in kinds \/ "obj" \in kinds -> Dtype("object", "")
       [] kinds = {"datetime"} \/ kinds = {"datetime", "nan"} ->
            Dtype("datetime64[ns]",
                  IF \E r \in R : Cell(d.rows[r], c).t = "datetime" /\ Cell(d.rows[r], c).v.aware
                    THEN "UTC" ELSE "")
       [] kinds = {"int"} -> Dtype("int64", "")
       [] kinds \subseteq {"int", "float", "nan"} /\ kinds # {"int"} -> Dtype("float64", "")

\* a column declared str is held as object
DtypeMatches(declared, held) == IF declared.kind = "str" THEN held.kind = "object" ELSE declared = held

Tenths(x) == IF x.t = "int" THEN 10 * x.v ELSE x.v

\* one value under one check; a value the check cannot be applied to fails it
CheckPasses(check, x) ==
  CASE check.kind = "isin" -> x.t = "str" /\ x.v \in check.allowed
    [] check.kind = "str_matches" -> x.t = "str" /\ ReMatch(check.pattern, x.v)
    [] check.kind = "str_length" -> x.t = "str" /\ check.min.v <= Len(x.v) /\ Len(x.v) <= check.max.v
    [] check.kind = "in_range" ->
         IF check.min.t = "datetime"
           THEN /\ x.t = "datetime" /\ x.v.aware
                /\ ~DatetimeLess(x.v, check.min.v) /\ ~DatetimeLess(check.max.v, x.v)
         ELSE /\ x.t \in {"int", "float"}
              /\ Tenths(check.min) <= Tenths(x) /\ Tenths(x) <= Tenths(check.max)

Failure(column, check, index) == [column |-> column, check |-> check, index |-> index]
Indices(n) == [r \in 1 .. n |-> r]
\* one failure case for each of the rows rs
RowFailures(column, check, rs) == [j \in 1 .. Len(rs) |-> Failure(column, check, rs[j])]

\* the rows whose value is null, and the rows whose value fails a check (a
\* check is not applied to a null)
NullRows(d, column) == SelectSeq(Indices(Len(d.rows)), LAMBDA r : IsNull(Cell(d.rows[r], column)))
FailingRows(d, column, check) ==
  SelectSeq(Indices(Len(d.rows)),
            LAMBDA r : ~IsNull(Cell(d.rows[r], column)) /\ ~CheckPasses(check, Cell(d.rows[r], column)))

RECURSIVE ChecksFailures(_, _, _, _)
ChecksFailures(d, col, checks, n) ==
  IF n > Len(checks) THEN <<>>
  ELSE RowFailures(col.name, checks[n].kind, FailingRows(d, col.name, checks[n]))
         \o ChecksFailures(d, col, checks, n + 1)

\* the failure cases of one column of the schema: the column is required,
\* has the declared dtype, holds nulls only if nullable, and passes its checks
ColumnFailures(d, col) ==
  IF col.name \notin d.cols THEN <<Failure(col.name, "column_in_dataframe", 0)>>
  ELSE (IF DtypeMatches(col.dtype, ColumnDtype(d, col.name)) THEN <<>>
        ELSE <<Failure(col.name, "dtype", 0)>>)
       \o (IF col.nullable THEN <<>>
           ELSE RowFailures(col.name, "not_nullable", NullRows(d, col.name)))
       \o ChecksFailures(d, col, col.checks, 1)

\* pa.DataFrameSchema(columns={...}) sets no strict: it is False, the default
Strict == FALSE

\* the columns of the dataframe that the schema does not name are failure
\* cases only under strict=True
StrictFailures(s, d) ==
  IF ~Strict THEN <<>>
  ELSE LET cs == SetToSeq(d.cols \ {s[j].name : j \in 1 .. Len(s)})
       IN [j \in 1 .. Len(cs) |-> Failure(cs[j], "column_in_schema", 0)]

RECURSIVE SchemaFailures(_, _, _)
SchemaFailures(s, d, n) ==
  IF n > Len(s) THEN StrictFailures(s, d) ELSE ColumnFailures(d, s[n]) \o SchemaFailures(s, d, n + 1)

\* schema.validate(df), lazy left at its default
LazyDefault == FALSE

\* schema.validate(df, lazy=True)
Lazy == TRUE

\* schema.validate(df, lazy=Lazy) inside try / except pa.errors.SchemaErrors:
\* lazy validation raises SchemaErrors with every failure case, which is
\* caught and printed; eager validation raises SchemaError at the first,
\* which is not caught
SchemaErrors(fc) ==
  IF fc = <<>> THEN [raised |-> FALSE, failure_cases |-> <<>>]
  ELSE IF Lazy THEN [raised |-> FALSE, failure_cases |-> fc]
  ELSE [raised |-> TRUE, failure_cases |-> <<>>]
ValidateDf(s, d) == SchemaErrors(SchemaFailures(s, d, 1))

\* ------------------------------------------------------------------- state

VARIABLES
  file,           \* the records of the ndjson file, one per line
  idx,            \* pydantic_check_data: the record the loop is at
  last,           \* pydantic_check_data: what the last Record(**raw_record) gave
  printed,        \* pydantic_check_data: the validation errors printed, per record
  pyPc,           \* pydantic_check_data: "loop", "returned", or "raised"
  df,             \* get_data: the dataframe
  col,            \* get_pandas_df_from_file: the position of the loop in StructCols
  yaml,           \* the lines of the schema's yaml file
  schema,         \* validate_pandas_df: the schema read from the yaml file
  failure_cases,  \* validate_pandas_df: the failure cases printed
  pdPc            \* get_data: the statement __main__ is at, "done" or "raised"

vars == <<file, idx, last, printed, pyPc, df, col, yaml, schema, failure_cases, pdPc>>
pyVars == <<idx, last, printed, pyPc>>
pdVars == <<df, col, yaml, schema, failure_cases, pdPc>>

\* Both programs are run on the same file, pydantic_example first.
Init ==
  /\ \E n \in 1 .. MaxRecords, k \in 1 .. MaxRecords, a \in 1 .. Len(AllEdits), b \in 1 .. Len(SecondEdits) :
       k <= n /\ file = File(n, k, a, b)
  /\ idx = 1
  /\ last = Called(0, NoResult)
  /\ printed = <<>>
  /\ pyPc = "loop"
  /\ df = EmptyDf
  /\ col = 1
  /\ yaml = <<>>
  /\ schema = <<>>
  /\ failure_cases = <<>>
  /\ pdPc = "read"

\* ------------------------------------------------------ pydantic_check_data

\* Record(**raw_record)
NewRecord(raw_record) == ValidateModel("Record", raw_record, <<>>)

\* One turn of the loop: _ = Record(**raw_record) returns a model, or raises
\* ValidationError, which is caught and printed, or raises something else,
\* which leaves the loop and the function.
CheckRecord ==
  /\ pyPc = "loop" /\ idx <= Len(file)
  /\ \E r \in {Called(idx, NewRecord(file[idx]))} :
       /\ last' = r
       /\ \/ /\ ~r.raised /\ r.errs = <<>>
             /\ idx' = idx + 1
             /\ UNCHANGED <<printed, pyPc>>
          \/ /\ ~r.raised /\ r.errs # <<>>
             /\ printed' = Append(printed, [record |-> idx, errs |-> r.errs])
             /\ idx' = idx + 1
             /\ UNCHANGED pyPc
          \/ /\ r.raised
             /\ pyPc' = "raised"
             /\ UNCHANGED <<idx, printed>>
  /\ UNCHANGED <<file, pdVars>>

CheckDataReturns ==
  /\ pyPc = "loop" /\ idx > Len(file)
  /\ pyPc' = "returned"
  /\ UNCHANGED <<file, idx, last, printed, pdVars>>

\* ------------------------------------------------------- get_data __main__

\* df = pd.read_json(filename, lines=True)
ReadFile ==
  /\ pyPc # "loop" /\ pdPc = "read"
  /\ df' = ReadJson(file)
  /\ col' = 1
  /\ pdPc' = "expand"
  /\ UNCHANGED <<file, pyVars, yaml, schema, failure_cases>>

\* one turn of the loop over the struct columns
ExpandStructCol ==
  /\ pdPc = "expand" /\ col <= Len(StructCols)
  /\ StructCols[col] \in df.cols
  /\ df' = Expand(df, StructCols[col])
  /\ col' = col + 1
  /\ UNCHANGED <<file, pyVars, yaml, schema, failure_cases, pdPc>>

\* df[struct_col] of a column the dataframe does not have raises KeyError
ExpandRaises ==
  /\ pdPc = "expand" /\ col <= Len(StructCols)
  /\ StructCols[col] \notin df.cols
  /\ pdPc' = "raised"
  /\ UNCHANGED <<file, pyVars, df, col, yaml, schema, failure_cases>>

\* the casts after the loop; get_pandas_df_from_file returns
CastColumns ==
  /\ pdPc = "expand" /\ col > Len(StructCols)
  /\ \E c \in {CastFields(df)} :
       \/ c.ok /\ df' = c.df /\ pdPc' = "write"
       \/ ~c.ok /\ df' = df /\ pdPc' = "raised"
  /\ UNCHANGED <<file, pyVars, col, yaml, schema, failure_cases>>

\* write_validation_schema: pandera.io.to_yaml(schema, f)
WriteYaml ==
  /\ pdPc = "write"
  /\ yaml' = ToYaml(ValidationSchema)
  /\ pdPc' = "rewrite"
  /\ UNCHANGED <<file, pyVars, df, col, schema, failure_cases>>

\* write_validation_schema: the lines are read, replaced and written back
RewriteYaml ==
  /\ pdPc = "rewrite"
  /\ yaml' = ReplaceLines(yaml)
  /\ pdPc' = "load"
  /\ UNCHANGED <<file, pyVars, df, col, schema, failure_cases>>

\* validate_pandas_df: schema = pandera.io.from_yaml(schema_yaml_filename)
LoadSchema ==
  /\ pdPc = "load"
  /\ schema' = FromYaml(yaml)
  /\ pdPc' = "validate"
  /\ UNCHANGED <<file, pyVars, df, col, yaml, failure_cases>>

\* validate_pandas_df: schema.validate(df, lazy=True), the failure cases printed
Validate ==
  /\ pdPc = "validate"
  /\ \E r \in {ValidateDf(schema, df)} :
       /\ failure_cases' = r.failure_cases
       /\ pdPc' = IF r.raised THEN "raised" ELSE "done"
  /\ UNCHANGED <<file, pyVars, df, col, yaml, schema>>

Next ==
  \/ CheckRecord \/ CheckDataReturns
  \/ ReadFile \/ ExpandStructCol \/ ExpandRaises \/ CastColumns
  \/ WriteYaml \/ RewriteYaml \/ LoadSchema \/ Validate

Spec == Init /\ [][Next]_vars

\* -------------------------------------------------------------- properties

Absent == [t |-> "absent", v |-> 0]

RECURSIVE At(_, _)
\* the value an object holds at a path, Absent when it holds none
At(f, path) ==
  IF path[1] \notin DOMAIN f THEN Absent
  ELSE IF Len(path) = 1 THEN f[path[1]]
  ELSE IF f[path[1]].t = "obj" THEN At(f[path[1]].v, Tail(path))
  ELSE Absent

RECURSIVE OutAt(_, _)
\* the validated value a model holds at a path
OutAt(out, path) ==
  LET js == {j \in 1 .. Len(out) : out[j].name = path[1]}
      x == out[CHOOSE j \in js : TRUE].v
  IN IF js = {} THEN Absent
     ELSE IF Len(path) = 1 THEN x
     ELSE IF x.t = "obj" THEN OutAt(x.v, Tail(path))
     ELSE Absent

IsStr(x, s) == x.t = "str" /\ x.v = s
IsInt(x, n) == x.t = "int" /\ x.v = n
HasErr(errs, loc) == \E j \in 1 .. Len(errs) : errs[j].loc = loc
HasErrOfType(errs, loc, type) == \E j \in 1 .. Len(errs) : errs[j].loc = loc /\ errs[j].type = type
HasFailure(fc, column, check, index) ==
  \E j \in 1 .. Len(fc) : fc[j].column = column /\ fc[j].check = check /\ fc[j].index = index

RECURSIVE FieldsUnder(_, _, _)
FieldsUnder(m, i, loc) ==
  IF i > Len(ModelFields(m)) THEN <<>>
  ELSE LET f == ModelFields(m)[i]
       IN <<[loc |-> Append(loc, f.name), owner |-> m, f |-> f]>>
            \o (IF f.type = "model" THEN FieldsUnder(f.model, 1, Append(loc, f.name)) ELSE <<>>)
            \o FieldsUnder(m, i + 1, loc)
\* every field of Record and of the models nested in it, in declared order,
\* with its path from the root and the model that declares it
DeclaredFields == FieldsUnder("Record", 1, <<>>)

\* the record the last Record(**raw_record) was called with
Called1 == last.record > 0
Raw == file[last.record]
Validated == Called1 /\ ~last.raised
\* the state right after a call of Record(**raw_record)
JustValidated == Validated /\ pyPc = "loop"
\* validate_pandas_df has called schema.validate
ValidateCalled == schema # <<>> /\ pdPc \in {"done", "raised"}
PostcodeLoc == <<"location", "postcode">>

\* C1: a malformed record never aborts a run: no exception leaves
\* pydantic_check_data, and none leaves the pandas pipeline before or
\* during validation.
C1_NoRecordAbortsTheRun == pyPc # "raised" /\ pdPc # "raised"

\* C2: the schema read back from the yaml file equals the schema built in
\* write_validation_schema, column by column: dtype, nullability, checks.
C2_SchemaRoundTrips == schema # <<>> => schema = ValidationSchema

\* C3: a nullable field that is absent from the record produces no error:
\* no missing-field error for a field declared str | None, and no
\* missing-column failure for the nullable column id_value.
C3_AbsentNullableIsSkipped ==
  /\ Validated =>
       \A j \in {k \in DOMAIN DeclaredFields : DeclaredFields[k].f.type = "str | None"} :
         At(Raw, DeclaredFields[j].loc).t = "absent" => ~HasErr(last.errs, DeclaredFields[j].loc)
  /\ \A j \in 1 .. Len(schema) :
       schema[j].nullable => ~HasFailure(failure_cases, schema[j].name, "column_in_dataframe", 0)

\* C4: coercion is decided per field. Location.postcode given an int holds
\* its decimal string afterwards and has no error (1234 becomes "1234"), in
\* the pydantic model and, by the cast to str, in the dataframe; a str field
\* of any model other than Location, the models nested in Location
\* included, given an int has a string_type error.
C4_CoercionPerField ==
  /\ Validated /\ At(Raw, PostcodeLoc).t = "int" =>
       /\ ~HasErr(last.errs, PostcodeLoc)
       /\ OutAt(last.out, PostcodeLoc).t = "str"
       /\ ParseInt(OutAt(last.out, PostcodeLoc).v) = [ok |-> TRUE, v |-> At(Raw, PostcodeLoc).v]
       /\ IsInt(At(Raw, PostcodeLoc), 1234) => OutAt(last.out, PostcodeLoc).v = <<"1", "2", "3", "4">>
  /\ Validated =>
       \A j \in {k \in DOMAIN DeclaredFields :
                  DeclaredFields[k].f.type = "str" /\ DeclaredFields[k].owner # "Location"} :
         At(Raw, DeclaredFields[j].loc).t = "int" =>
           HasErrOfType(last.errs, DeclaredFields[j].loc, "string_type")
  /\ pdPc \in {"write", "rewrite", "load", "validate", "done"} =>
       \A r \in 1 .. Len(file) :
         IsInt(At(file[r], PostcodeLoc), 1234) =>
           IsStr(Cell(df.rows[r], "location_postcode"), <<"1", "2", "3", "4">>)

\* C4 witness: a record with postcode 1234 and name.first 1234 was validated:
\* the postcode is held as "1234", name.first is a string_type error.
C4_Witness ==
  /\ Validated /\ pdPc = "done"
  /\ IsInt(At(Raw, PostcodeLoc), 1234)
  /\ IsStr(OutAt(last.out, PostcodeLoc), <<"1", "2", "3", "4">>)
  /\ IsInt(At(Raw, <<"name", "first">>), 1234)
  /\ HasErrOfType(last.errs, <<"name", "first">>, "string_type")
  /\ IsStr(Cell(df.rows[last.record], "location_postcode"), <<"1", "2", "3", "4">>)

\* the int fields with a range validator, and the range its message names
RangeFields ==
  <<[loc |-> <<"location", "street", "number">>, min |-> 0, max |-> 99999],
    [loc |-> <<"dob", "age">>, min |-> 0, max |-> 100],
    [loc |-> <<"registered", "age">>, min |-> 0, max |-> 100]>>

\* C5: a value of a range-validated field is rejected if and only if it
\* lies outside the closed interval [min, max] that the validator's message
\* names; min and max themselves are accepted.
C5_RangeIsClosed ==
  Validated =>
    \A j \in 1 .. Len(RangeFields) :
      LET x == At(Raw, RangeFields[j].loc)
      IN x.t = "int" =>
           (HasErr(last.errs, RangeFields[j].loc) <=> ~(RangeFields[j].min <= x.v /\ x.v <= RangeFields[j].max))

\* whether the declared field d of a record is in violation: it is absent,
\* or of the wrong type, or rejected by its validator (a field under an
\* absent or mistyped nested model is not looked at)
Violates(raw, d) ==
  LET x == At(raw, d.loc)
      parent == SubSeq(d.loc, 1, Len(d.loc) - 1)
  IN /\ parent = <<>> \/ At(raw, parent).t = "obj"
     /\ \/ x.t = "absent"
        \/ IF d.f.type = "model" THEN x.t # "obj"
           ELSE LET t == ValidateType(d.f.type, x, CoerceNumbersToStr(d.owner))
                IN ~t.ok \/ RunValidator(d.f.validator, t.v) = "ValueError"

RECURSIVE DeclaredPart(_, _)
\* a record without the keys that its model does not declare
DeclaredPart(m, data) ==
  LET fs == ModelFields(m)
      f(k) == fs[CHOOSE j \in 1 .. Len(fs) : fs[j].name = k]
  IN [k \in DOMAIN data \cap {fs[j].name : j \in 1 .. Len(fs)} |->
        IF f(k).type = "model" /\ data[k].t = "obj" THEN VObj(DeclaredPart(f(k).model, data[k].v))
        ELSE data[k]]

\* a dataframe without the columns that the schema does not name
DeclaredColumns(s, d) ==
  LET names == {s[j].name : j \in 1 .. Len(s)}
  IN [cols |-> d.cols \cap names,
      rows |-> [r \in 1 .. Len(d.rows) |-> [c \in DOMAIN d.rows[r] \cap names |-> d.rows[r][c]]]]

\* C7: fields that the schema does not declare are ignored. The errors of a
\* record are those of the record without its undeclared keys, at the top
\* level and in every nested model, and the failure cases of a dataframe
\* are those of the dataframe without its undeclared columns.
C7_UndeclaredFieldsIgnored ==
  /\ JustValidated => last.errs = NewRecord(DeclaredPart("Record", Raw)).errs
  /\ pdPc = "done" => failure_cases = ValidateDf(schema, DeclaredColumns(schema, df)).failure_cases

\* C7 witness: a record with an undeclared key at the top level and one in
\* a nested model was validated by both programs, and has no error.
C7_Witness ==
  /\ Validated /\ pdPc = "done"
  /\ "zzz" \in DOMAIN Raw /\ At(Raw, <<"name", "middle">>).t = "str"
  /\ {"zzz", "name_middle"} \subseteq df.cols
  /\ last.errs = <<>> /\ failure_cases = <<>>

\* the pattern of a regex validator
PatternOf(validator) ==
  CASE validator = "offset_obeys_regex" -> timezone_offset_regex
    [] validator = "all_obeys_regex" -> url_regex
    [] validator = "email_obeys_regex" -> email_address_regex
RegexFields ==
  {k \in DOMAIN DeclaredFields :
     DeclaredFields[k].f.validator \in {"offset_obeys_regex", "all_obeys_regex", "email_obeys_regex"}}

\* C8 as claimed: a regex-checked field passes whenever its pattern matches
\* the string anywhere.
C8_MatchesAnywhere ==
  JustValidated =>
    \A j \in RegexFields :
      LET x == At(Raw, DeclaredFields[j].loc)
      IN x.t = "str" =>
           (~HasErr(last.errs, DeclaredFields[j].loc)
              <=> ReMatchAnywhere(PatternOf(DeclaredFields[j].f.validator), x.v))

\* C8 as amended: a regex-checked field passes if and only if its pattern
\* matches starting at the first character of the string; the match need
\* not reach the end of the string. So does a str_matches check of the
\* pandera schema.
C8_MatchesAtStart ==
  /\ JustValidated =>
       \A j \in RegexFields :
         LET x == At(Raw, DeclaredFields[j].loc)
         IN x.t = "str" =>
              (~HasErr(last.errs, DeclaredFields[j].loc)
                 <=> Ends(PatternOf(DeclaredFields[j].f.validator), x.v, {0}) # {})
  /\ pdPc = "done" =>
       \A j \in 1 .. Len(schema) : \A r \in 1 .. Len(df.rows) :
         LET x == Cell(df.rows[r], schema[j].name)
         IN schema[j].checks # <<>> /\ schema[j].checks[1].kind = "str_matches" /\ x.t = "str" =>
              (~HasFailure(failure_cases, schema[j].name, "str_matches", r)
                 <=> Ends(schema[j].checks[1].pattern, x.v, {0}) # {})

\* C8 witness: a picture with characters before a URL was rejected, and
\* one with characters after a URL was accepted, by both programs.
C8_Witness ==
  /\ Validated /\ pdPc = "done"
  /\ At(Raw, <<"picture", "large">>).t = "str"
  /\ At(Raw, <<"picture", "large">>).v = <<"x", " ">> \o Url
  /\ HasErr(last.errs, <<"picture", "large">>)
  /\ HasFailure(failure_cases, "picture_large", "str_matches", last.record)
  /\ At(Raw, <<"picture", "medium">>).t = "str"
  /\ At(Raw, <<"picture", "medium">>).v = Url \o <<" ", "!">>
  /\ ~HasErr(last.errs, <<"picture", "medium">>)
  /\ ~HasFailure(failure_cases, "picture_medium", "str_matches", last.record)

\* C9: the two validators agree on a record: pydantic reports an error for
\* it if and only if pandera reports a failure case for it.
C9_ValidatorsAgree ==
  pyPc = "returned" /\ pdPc = "done" /\ Len(file) = 1 => (printed # <<>> <=> failure_cases # <<>>)

\* the ten struct columns: the seven nested fields of a record and the
\* three nested fields of location
TopStructs == {"name", "location", "login", "dob", "registered", "id", "picture"}
LocationStructs == {"street", "coordinates", "timezone"}
StructComplete(raw) ==
  /\ \A s \in TopStructs : At(raw, <<s>>).t = "obj"
  /\ \A s \in LocationStructs : At(raw, <<"location", s>>).t = "obj"

RECURSIVE Joined(_)
\* a path joined by underscores
Joined(path) == IF Len(path) = 1 THEN path[1] ELSE path[1] \o "_" \o Joined(Tail(path))

SameValue(x, y) == x.t = y.t /\ x = y

\* the paths of the leaves of a record: what is reached from the root
\* through struct fields and is not itself one
LeafPaths(raw) ==
  {<<k>> : k \in DOMAIN raw \ TopStructs}
    \cup UNION {{<<s, k>> : k \in {q \in DOMAIN At(raw, <<s>>).v : ~(s = "location" /\ q \in LocationStructs)}} :
                  s \in {q \in TopStructs : At(raw, <<q>>).t = "obj"}}
    \cup UNION {{<<"location", s, k>> : k \in DOMAIN At(raw, <<"location", s>>).v} :
                  s \in {q \in LocationStructs : At(raw, <<"location", q>>).t = "obj"}}

====
